---- MODULE Spec2Model ----
(***************************************************************************)
(* Model of todo_frontend/src/App.js: the four API client helpers, the     *)
(* App component's state, its event handlers and the continuations that    *)
(* run when a request settles.  The REST backend the helpers talk to is    *)
(* the store `server`; requests and their responses travel in `inflight`.  *)
(***************************************************************************)
EXTENDS Integers, Sequences, FiniteSets, TLC

\* ---------------------------------------------------------------- bounds
MaxLen == 1       \* longest text typed into an input
MaxTasks == 2     \* ids the backend hands out: 1..MaxTasks
MaxInflight == 2  \* requests on the wire at the same time
MaxReqs == 4      \* requests issued in one run

\* ------------------------------------------------------------- constants
NULL == 0                      \* null in busyId / editingId (ids start at 1)
ErrNull == "null"              \* null in error
Chars == {"a", " "}
Filters == {"all", "active", "completed"}
InitTitle == <<"b">>            \* title of the tasks the backend starts with

Strs == UNION {[1..k -> Chars] : k \in 0..MaxLen}

NoTask == [id |-> NULL, title |-> <<>>, completed |-> FALSE]

\* ------------------------------------------------------------ String.trim
RECURSIVE TrimStart(_)
TrimStart(s) ==
  IF s # <<>> /\ Head(s) = " " THEN TrimStart(Tail(s)) ELSE s

RECURSIVE TrimEnd(_)
TrimEnd(s) ==
  IF s # <<>> /\ s[Len(s)] = " " THEN TrimEnd(SubSeq(s, 1, Len(s) - 1)) ELSE s

trimNoop(s) == s

trim(s) == TrimEnd(TrimStart(s))

\* ------------------------------------------------------ Array helpers
RECURSIVE ArrayFilter(_, _)
\* Array.prototype.filter with the predicate given as the set of kept values
ArrayFilter(arr, keep) ==
  IF arr = <<>> THEN <<>>
  ELSE IF Head(arr) \in keep
       THEN <<Head(arr)>> \o ArrayFilter(Tail(arr), keep)
       ELSE ArrayFilter(Tail(arr), keep)

Range(arr) == {arr[i] : i \in 1..Len(arr)}

VARIABLES
  tasks,         \* useState([])            line 63
  newTitle,      \* useState('')            line 64
  loading,       \* useState(true)          line 65
  busyId,        \* useState(null)          line 66
  error,         \* useState(null)          line 67
  filter,        \* useState('all')         line 68
  editingId,     \* useState(null)          line 69
  editingTitle,  \* useState('')            line 70
  ignore,        \* the initial-load effect's flag, set by its cleanup
  server,        \* the backend's tasks, in GET /tasks order
  nextId,        \* next id the backend assigns
  inflight,      \* requests sent and not yet settled in the component
  sent,          \* number of requests issued so far
  deleted,       \* history: ids whose delete completed successfully
  lastEvent      \* the request-issuing handler or continuation that ran
                 \* last, <<"input", "">> after any other event

vars == <<tasks, newTitle, loading, busyId, error, filter, editingId,
          editingTitle, ignore, server, nextId, inflight, sent, deleted,
          lastEvent>>

ui == <<tasks, newTitle, loading, busyId, error, filter, editingId,
        editingTitle, ignore>>

\* ------------------------------------------------------------ requests
\* requests are told apart by the free slot they take
FreeRid == CHOOSE n \in 1..MaxInflight :
             /\ \A r \in inflight : r.rid # n
             /\ \A m \in 1..(n - 1) : \E r \in inflight : r.rid = m

Request(kind, task, title, completed) ==
  [rid |-> FreeRid, kind |-> kind, task |-> task, title |-> title,
   completed |-> completed, status |-> "sent", data |-> <<>>, msg |-> ""]

Send(req) ==
  /\ inflight' = inflight \cup {req}
  /\ sent' = sent + 1

CanSend == Cardinality(inflight) < MaxInflight /\ sent < MaxReqs

\* the initial stores the backend may hold when the page is opened
InitStores ==
  UNION {[1..n -> {[id |-> i, title |-> InitTitle, completed |-> c] :
                     i \in 1..MaxTasks, c \in {FALSE}}] : n \in 0..MaxTasks}

Init ==
  /\ tasks = <<>>
  /\ newTitle = <<>>
  /\ loading = TRUE
  /\ busyId = NULL
  /\ error = ErrNull
  /\ filter = "all"
  /\ editingId = NULL
  /\ editingTitle = <<>>
  /\ ignore = FALSE
  /\ server \in {s \in InitStores : \A i \in 1..Len(s) : s[i].id = i}
  /\ nextId = Len(server) + 1
  /\ inflight = {[rid |-> 1, kind |-> "list", task |-> NoTask, title |-> <<>>,
                  completed |-> FALSE, status |-> "sent", data |-> <<>>,
                  msg |-> ""]}
  /\ sent = 1
  /\ deleted = {}
  /\ lastEvent = <<"mount", "">>


\* ------------------------------------------------------------- backend
\* Position of the task with this id in the store, 0 when it holds none
ServerIndex(id) ==
  IF \E i \in 1..Len(server) : server[i].id = id
  THEN CHOOSE i \in 1..Len(server) : server[i].id = id
  ELSE 0

\* POST /tasks {title}: the task the backend creates
ServerCreate(title) == [id |-> nextId, title |-> title, completed |-> FALSE]

\* PUT /tasks/:id {title?, completed?}: the stored task with the sent fields
ServerUpdate(r) ==
  IF r.kind = "toggle"
  THEN [server[ServerIndex(r.task.id)] EXCEPT !.completed = r.completed]
  ELSE [server[ServerIndex(r.task.id)] EXCEPT !.title = r.title]

\* DELETE /tasks/:id: the store without the task
ServerDelete(id) == ArrayFilter(server, {t \in Range(server) : t.id # id})

\* the Error a helper throws on a response that is not ok
HttpError(kind, status) ==
  CASE kind = "list"   /\ status = 500 -> "Failed to fetch tasks: 500"
    [] kind = "create" /\ status = 500 -> "Failed to create task: 500"
    [] kind \in {"toggle", "saveEdit"} /\ status = 500 -> "Failed to update task: 500"
    [] kind \in {"toggle", "saveEdit"} /\ status = 404 -> "Failed to update task: 404"
    [] kind = "delete" /\ status = 500 -> "Failed to delete task: 500"
    [] kind = "delete" /\ status = 404 -> "Failed to delete task: 404"


Resolve(r, data) ==
  inflight' = (inflight \ {r}) \cup {[r EXCEPT !.status = "ok", !.data = data]}

Reject(r, msg) ==
  inflight' = (inflight \ {r}) \cup {[r EXCEPT !.status = "err", !.msg = msg]}

Pending(kinds) == {r \in inflight : r.status = "sent" /\ r.kind \in kinds}

backendFrame == UNCHANGED <<ui, sent, deleted, lastEvent>>

\* ------------------------------------------------------ API client helpers
fetchTasks ==
  \E r \in Pending({"list"}) :
    /\ \/ Resolve(r, server)
       \/ Reject(r, HttpError("list", 500))
    /\ UNCHANGED <<server, nextId>>
    /\ backendFrame

createTask ==
  \E r \in Pending({"create"}) :
    /\ \/ /\ nextId <= MaxTasks
          /\ Resolve(r, <<ServerCreate(r.title)>>)
          /\ server' = Append(server, ServerCreate(r.title))
          /\ nextId' = nextId + 1
       \/ /\ Reject(r, HttpError("create", 500))
          /\ UNCHANGED <<server, nextId>>
    /\ backendFrame

updateTask ==
  \E r \in Pending({"toggle", "saveEdit"}) :
    /\ \/ /\ ServerIndex(r.task.id) # 0
          /\ Resolve(r, <<ServerUpdate(r)>>)
          /\ server' = [server EXCEPT ![ServerIndex(r.task.id)] = ServerUpdate(r)]
       \/ /\ ServerIndex(r.task.id) # 0
          /\ Reject(r, HttpError(r.kind, 500))
          /\ UNCHANGED server
       \/ /\ ServerIndex(r.task.id) = 0
          /\ Reject(r, HttpError(r.kind, 404))
          /\ UNCHANGED server
    /\ UNCHANGED nextId
    /\ backendFrame

deleteTask ==
  \E r \in Pending({"delete"}) :
    /\ \/ /\ Resolve(r, <<>>)
          /\ server' = ServerDelete(r.task.id)
       \/ /\ ServerIndex(r.task.id) # 0
          /\ Reject(r, HttpError("delete", 500))
          /\ UNCHANGED server
       \/ /\ ServerIndex(r.task.id) = 0
          /\ Reject(r, HttpError("delete", 404))
          /\ UNCHANGED server
    /\ UNCHANGED nextId
    /\ backendFrame

\* ------------------------------------------------------------ component
\* err.message || fallback
MessageOr(msg, fallback) == IF msg = "" THEN fallback ELSE msg

\* prev.map(t => (t.id === task.id ? updated : t))
ReplaceById(prev, id, updated) ==
  [i \in 1..Len(prev) |-> IF prev[i].id = id THEN updated ELSE prev[i]]

\* prev.filter(t => t.id !== task.id)
RemoveById(prev, id) == ArrayFilter(prev, {t \in Range(prev) : t.id # id})

visibleTasksSwapped ==
  IF filter = "active" THEN ArrayFilter(tasks, {t \in Range(tasks) : t.completed})
  ELSE IF filter = "completed" THEN ArrayFilter(tasks, {t \in Range(tasks) : ~t.completed})
  ELSE tasks

visibleTasks ==
  IF filter = "active" THEN ArrayFilter(tasks, {t \in Range(tasks) : ~t.completed})
  ELSE IF filter = "completed" THEN ArrayFilter(tasks, {t \in Range(tasks) : t.completed})
  ELSE tasks

\* the rows rendered, each handler closing over its row's task
Rows == Range(visibleTasks)

AddDisabledIgnoresLoading == trim(newTitle) = <<>>

\* disabled={loading || !newTitle.trim()} on the Add button
AddDisabled == loading \/ trim(newTitle) = <<>>

\* disabled={busyId === task.id} on the checkbox, Edit and Delete
RowDisabled(task) == busyId = task.id

\* disabled={busyId === task.id || !editingTitle.trim()} on Save
SaveDisabled(task) == busyId = task.id \/ trim(editingTitle) = <<>>

Mounted == ~ignore

\* ---- inputs and filter chips
\* what is typed into the new-title input: nothing, spaces only, or a title
\* with a space on both sides, so that what handleAdd sends differs from
\* what was typed
NewTitles ==
  {s \in Strs : \A i \in 1..Len(s) : s[i] = " "} \cup
  {<<" ">> \o s \o <<" ">> : s \in {x \in Strs : \E i \in 1..Len(x) : x[i] # " "}}

setNewTitle ==
  /\ Mounted
  /\ \E v \in NewTitles : newTitle' = v
  /\ lastEvent' = <<"input", "">>
  /\ UNCHANGED <<tasks, loading, busyId, error, filter, editingId, editingTitle,
                 ignore, server, nextId, inflight, sent, deleted>>

setFilter ==
  /\ Mounted
  /\ \E f \in Filters : filter' = f
  /\ lastEvent' = <<"input", "">>
  /\ UNCHANGED <<tasks, newTitle, loading, busyId, error, editingId, editingTitle,
                 ignore, server, nextId, inflight, sent, deleted>>

setEditingTitle ==
  /\ Mounted
  /\ \E task \in Rows : editingId = task.id
  /\ \E v \in Strs : editingTitle' = v
  /\ lastEvent' = <<"input", "">>
  /\ UNCHANGED <<tasks, newTitle, loading, busyId, error, filter, editingId,
                 ignore, server, nextId, inflight, sent, deleted>>

\* ---- handleAdd, up to its await
handleAdd ==
  LET title == trim(newTitle) IN
  IF title = <<>>
  THEN /\ lastEvent' = <<"handleAdd", "return">>
       /\ UNCHANGED <<ui, server, nextId, inflight, sent, deleted>>
  ELSE /\ CanSend
       /\ error' = ErrNull
       /\ loading' = TRUE
       /\ Send(Request("create", NoTask, title, FALSE))
       /\ lastEvent' = <<"handleAdd", "await">>
       /\ UNCHANGED <<tasks, newTitle, busyId, filter, editingId, editingTitle,
                      ignore, server, nextId, deleted>>

\* a click on the Add button, or Enter in the input with the button enabled
clickAdd ==
  /\ Mounted
  /\ ~AddDisabled
  /\ handleAdd

\* a submit event dispatched on the form itself, which no button gates
submitForm ==
  /\ Mounted
  /\ handleAdd

\* ---- handleToggle, up to its await
handleToggleOptimistic(task) ==
  /\ CanSend
  /\ busyId' = task.id
  /\ error' = ErrNull
  /\ tasks' = ReplaceById(tasks, task.id, [task EXCEPT !.completed = ~task.completed])
  /\ Send(Request("toggle", task, <<>>, ~task.completed))
  /\ lastEvent' = <<"handleToggle", "await">>
  /\ UNCHANGED <<newTitle, loading, filter, editingId, editingTitle,
                 ignore, server, nextId, deleted>>

handleToggle(task) ==
  /\ CanSend
  /\ busyId' = task.id
  /\ error' = ErrNull
  /\ Send(Request("toggle", task, <<>>, ~task.completed))
  /\ lastEvent' = <<"handleToggle", "await">>
  /\ UNCHANGED <<tasks, newTitle, loading, filter, editingId, editingTitle,
                 ignore, server, nextId, deleted>>

clickToggle ==
  /\ Mounted
  /\ \E task \in Rows : ~RowDisabled(task) /\ handleToggle(task)

\* ---- handleDelete, up to its await
handleDeleteKeepsError(task) ==
  /\ CanSend
  /\ busyId' = task.id
  /\ Send(Request("delete", task, <<>>, FALSE))
  /\ lastEvent' = <<"handleDelete", "await">>
  /\ UNCHANGED <<tasks, newTitle, loading, error, filter, editingId, editingTitle,
                 ignore, server, nextId, deleted>>

handleDelete(task) ==
  /\ CanSend
  /\ busyId' = task.id
  /\ error' = ErrNull
  /\ Send(Request("delete", task, <<>>, FALSE))
  /\ lastEvent' = <<"handleDelete", "await">>
  /\ UNCHANGED <<tasks, newTitle, loading, filter, editingId, editingTitle,
                 ignore, server, nextId, deleted>>

clickDelete ==
  /\ Mounted
  /\ \E task \in Rows :
       /\ editingId # task.id
       /\ ~RowDisabled(task)
       /\ handleDelete(task)

\* ---- inline edit
startEdit(task) ==
  /\ editingId' = task.id
  /\ editingTitle' = task.title
  /\ lastEvent' = <<"input", "">>
  /\ UNCHANGED <<tasks, newTitle, loading, busyId, error, filter,
                 ignore, server, nextId, inflight, sent, deleted>>

clickEdit ==
  /\ Mounted
  /\ \E task \in Rows :
       /\ editingId # task.id
       /\ ~RowDisabled(task)
       /\ startEdit(task)

\* setEditingId(null); setEditingTitle('')
cancelEdit ==
  /\ editingId' = NULL
  /\ editingTitle' = <<>>

\* the Cancel button or Escape in the edit input
clickCancel ==
  /\ Mounted
  /\ \E task \in Rows : editingId = task.id
  /\ cancelEdit
  /\ lastEvent' = <<"input", "">>
  /\ UNCHANGED <<tasks, newTitle, loading, busyId, error, filter,
                 ignore, server, nextId, inflight, sent, deleted>>

saveEditReturnsWithoutCancel(task) ==
  LET title == trim(editingTitle) IN
  IF title = <<>> \/ title = task.title
  THEN /\ lastEvent' = <<"saveEdit", "return">>
       /\ UNCHANGED <<tasks, newTitle, loading, busyId, error, filter,
                      editingId, editingTitle,
                      ignore, server, nextId, inflight, sent, deleted>>
  ELSE /\ CanSend
       /\ busyId' = task.id
       /\ error' = ErrNull
       /\ Send(Request("saveEdit", task, title, FALSE))
       /\ lastEvent' = <<"saveEdit", "await">>
       /\ UNCHANGED <<tasks, newTitle, loading, filter, editingId, editingTitle,
                      ignore, server, nextId, deleted>>

\* saveEdit, up to its await
saveEdit(task) ==
  LET title == trim(editingTitle) IN
  IF title = <<>> \/ title = task.title
  THEN /\ cancelEdit
       /\ lastEvent' = <<"saveEdit", "return">>
       /\ UNCHANGED <<tasks, newTitle, loading, busyId, error, filter,
                      ignore, server, nextId, inflight, sent, deleted>>
  ELSE /\ CanSend
       /\ busyId' = task.id
       /\ error' = ErrNull
       /\ Send(Request("saveEdit", task, title, FALSE))
       /\ lastEvent' = <<"saveEdit", "await">>
       /\ UNCHANGED <<tasks, newTitle, loading, filter, editingId, editingTitle,
                      ignore, server, nextId, deleted>>

clickSave ==
  /\ Mounted
  /\ \E task \in Rows :
       /\ editingId = task.id
       /\ ~SaveDisabled(task)
       /\ saveEdit(task)

\* onKeyDown with e.key === 'Enter' in the edit input
keyEnter ==
  /\ Mounted
  /\ \E task \in Rows :
       /\ editingId = task.id
       /\ saveEdit(task)

\* the cleanup of the initial-load effect.  Only the effect's own promise
\* chain reads `ignore`, so the teardown is modelled while that request is
\* still on the wire; afterwards no code path reads the flag again.
unmount ==
  /\ Mounted
  /\ \E r \in inflight : r.kind = "list"
  /\ ignore' = TRUE
  /\ lastEvent' = <<"unmount", "">>
  /\ UNCHANGED <<tasks, newTitle, loading, busyId, error, filter, editingId,
                 editingTitle, server, nextId, inflight, sent, deleted>>

\* ------------------------------------------- continuations after an await
Settled(kinds) == {r \in inflight : r.status # "sent" /\ r.kind \in kinds}

\* the response leaves the wire and the handler resumes
Deliver(r) ==
  /\ inflight' = inflight \ {r}
  /\ lastEvent' = <<r.kind, r.status>>
  /\ deleted' = IF r.kind = "delete" /\ r.status = "ok"
                THEN deleted \cup {r.task.id} ELSE deleted
  /\ UNCHANGED <<server, nextId, sent>>

initialLoadSettledUnguarded(r) ==
  /\ tasks' = IF r.status = "ok" THEN r.data ELSE tasks
  /\ error' = IF r.status = "ok" THEN error
              ELSE MessageOr(r.msg, "Failed to load")
  /\ loading' = FALSE

\* .then / .catch / .finally of the initial-load effect
initialLoadSettled(r) ==
  IF ignore
  THEN UNCHANGED <<tasks, error, loading>>
  ELSE /\ tasks' = IF r.status = "ok" THEN r.data ELSE tasks
       /\ error' = IF r.status = "ok" THEN error
                   ELSE MessageOr(r.msg, "Failed to load")
       /\ loading' = FALSE

loadSettled ==
  \E r \in Settled({"list"}) :
    /\ Deliver(r)
    /\ initialLoadSettled(r)
    /\ UNCHANGED <<newTitle, busyId, filter, editingId, editingTitle, ignore>>

handleAddResolvedAppends(r) ==
  /\ tasks' = Append(tasks, r.data[1])
  /\ newTitle' = <<>>
  /\ loading' = FALSE
  /\ UNCHANGED error

handleAddResolvedLocalRecord(r) ==
  /\ tasks' = <<[id |-> NULL, title |-> r.title, completed |-> FALSE]>> \o tasks
  /\ newTitle' = <<>>
  /\ loading' = FALSE
  /\ UNCHANGED error

\* handleAdd after createTask resolved
handleAddResolved(r) ==
  /\ tasks' = <<r.data[1]>> \o tasks
  /\ newTitle' = <<>>
  /\ loading' = FALSE
  /\ UNCHANGED error

handleAddRejectedClearsInput(r) ==
  /\ error' = MessageOr(r.msg, "Failed to add task")
  /\ loading' = FALSE
  /\ newTitle' = <<>>
  /\ UNCHANGED tasks

\* handleAdd after createTask rejected
handleAddRejected(r) ==
  /\ error' = MessageOr(r.msg, "Failed to add task")
  /\ loading' = FALSE
  /\ UNCHANGED <<tasks, newTitle>>

addSettled ==
  \E r \in Settled({"create"}) :
    /\ Deliver(r)
    /\ IF r.status = "ok" THEN handleAddResolved(r) ELSE handleAddRejected(r)
    /\ UNCHANGED <<busyId, filter, editingId, editingTitle, ignore>>

handleToggleResolvedNegating(r) ==
  /\ tasks' = [i \in 1..Len(tasks) |->
                IF tasks[i].id = r.task.id
                THEN [tasks[i] EXCEPT !.completed = ~tasks[i].completed]
                ELSE tasks[i]]
  /\ busyId' = NULL
  /\ UNCHANGED error

handleToggleResolvedUpserts(r) ==
  /\ tasks' = IF \E i \in 1..Len(tasks) : tasks[i].id = r.task.id
              THEN ReplaceById(tasks, r.task.id, r.data[1])
              ELSE <<r.data[1]>> \o tasks
  /\ busyId' = NULL
  /\ UNCHANGED error

\* handleToggle after updateTask resolved
handleToggleResolved(r) ==
  /\ tasks' = ReplaceById(tasks, r.task.id, r.data[1])
  /\ busyId' = NULL
  /\ UNCHANGED error

handleToggleRejectedStaysBusy(r) ==
  /\ error' = MessageOr(r.msg, "Failed to toggle task")
  /\ UNCHANGED <<tasks, busyId>>

\* handleToggle after updateTask rejected
handleToggleRejected(r) ==
  /\ error' = MessageOr(r.msg, "Failed to toggle task")
  /\ busyId' = NULL
  /\ UNCHANGED tasks

toggleSettled ==
  \E r \in Settled({"toggle"}) :
    /\ Deliver(r)
    /\ IF r.status = "ok" THEN handleToggleResolved(r) ELSE handleToggleRejected(r)
    /\ UNCHANGED <<newTitle, loading, filter, editingId, editingTitle, ignore>>

\* handleDelete after deleteTask resolved
handleDeleteResolved(r) ==
  /\ tasks' = RemoveById(tasks, r.task.id)
  /\ busyId' = NULL
  /\ UNCHANGED error

\* handleDelete after deleteTask rejected
handleDeleteRejected(r) ==
  /\ error' = MessageOr(r.msg, "Failed to delete task")
  /\ busyId' = NULL
  /\ UNCHANGED tasks

deleteSettled ==
  \E r \in Settled({"delete"}) :
    /\ Deliver(r)
    /\ IF r.status = "ok" THEN handleDeleteResolved(r) ELSE handleDeleteRejected(r)
    /\ UNCHANGED <<newTitle, loading, filter, editingId, editingTitle, ignore>>

saveEditResolvedMovesToFront(r) ==
  /\ tasks' = <<r.data[1]>> \o RemoveById(tasks, r.task.id)
  /\ cancelEdit
  /\ busyId' = NULL
  /\ UNCHANGED error

\* saveEdit after updateTask resolved
saveEditResolved(r) ==
  /\ tasks' = ReplaceById(tasks, r.task.id, r.data[1])
  /\ cancelEdit
  /\ busyId' = NULL
  /\ UNCHANGED error

saveEditRejectedExitsEdit(r) ==
  /\ error' = MessageOr(r.msg, "Failed to update task")
  /\ busyId' = NULL
  /\ cancelEdit
  /\ UNCHANGED tasks

\* saveEdit after updateTask rejected
saveEditRejected(r) ==
  /\ error' = MessageOr(r.msg, "Failed to update task")
  /\ busyId' = NULL
  /\ UNCHANGED <<tasks, editingId, editingTitle>>

saveSettled ==
  \E r \in Settled({"saveEdit"}) :
    /\ Deliver(r)
    /\ IF r.status = "ok" THEN saveEditResolved(r) ELSE saveEditRejected(r)
    /\ UNCHANGED <<newTitle, loading, filter, ignore>>

\* ------------------------------------------------------- specifications
Next ==
  \/ setNewTitle \/ setFilter \/ setEditingTitle
  \/ clickAdd \/ clickToggle \/ clickDelete
  \/ clickEdit \/ clickCancel \/ clickSave \/ keyEnter
  \/ unmount
  \/ fetchTasks \/ createTask \/ updateTask \/ deleteTask
  \/ loadSettled \/ addSettled \/ toggleSettled \/ deleteSettled \/ saveSettled

Spec == Init /\ [][Next]_vars

\* the same program with submit events also dispatched on the form directly
NextSubmit == Next \/ submitForm

SpecSubmit == Init /\ [][NextSubmit]_vars

\* ================================================================ claims
Mutating == {"toggle", "delete", "saveEdit"}

\* the requests whose continuation runs in this step
Delivered(kinds, status) ==
  {r \in inflight \ inflight' : r.kind \in kinds /\ r.status = status}

\* the requests a handler issues in this step
Issued(kinds) ==
  {r \in inflight' \ inflight : r.kind \in kinds /\ r.status = "sent"}

NoError(e) == e = ErrNull \/ e = ""

IsBlank(s) == \A i \in 1..Len(s) : s[i] = " "

\* C1: at most one toggle, delete or saveEdit request is in flight at any
\* time, on the same row or on different rows.
C1_SingleMutationInFlight ==
  Cardinality({r \in inflight : r.kind \in Mutating}) <= 1

\* C2: when a toggle of task t completes successfully, the element of the
\* collection with id t.id is exactly the record the server returned.
C2_ToggleStoresServerRecord ==
  [][\A r \in Delivered({"toggle"}, "ok") :
       \A i \in 1..Len(tasks') :
         tasks'[i].id = r.task.id => tasks'[i] = r.data[1]]_vars

C2_Witness ==
  /\ lastEvent = <<"toggle", "ok">>
  /\ \E i \in 1..Len(tasks) : tasks[i].completed

\* C3: a toggle or saveEdit changes nothing in the collection when it starts,
\* and when its request fails the collection is what it was just before the
\* failure was delivered and error is non-empty.
C3_FailedUpdateKeepsTasks ==
  [][/\ Issued({"toggle", "saveEdit"}) # {} => tasks' = tasks
     /\ Delivered({"toggle", "saveEdit"}, "err") # {} =>
          tasks' = tasks /\ ~NoError(error')]_vars

C3_Witness ==
  /\ lastEvent \in {<<"toggle", "err">>, <<"saveEdit", "err">>}
  /\ tasks # <<>>
  /\ ~NoError(error)

\* C4: when a create request is rejected, the collection is unchanged, error
\* is non-empty and the new-title input keeps the typed text.
C4_RejectedCreate ==
  [][Delivered({"create"}, "err") # {} =>
       /\ tasks' = tasks
       /\ ~NoError(error')
       /\ newTitle' = newTitle]_vars

C4_Witness ==
  /\ lastEvent = <<"create", "err">>
  /\ newTitle # <<>>
  /\ error = "Failed to create task: 500"

\* C5: handleAdd run with an empty or whitespace-only title issues no request
\* and leaves tasks, loading and error unchanged.
C5_BlankAddIsNoop ==
  [][(/\ IsBlank(newTitle)
      /\ lastEvent'[1] = "handleAdd"
      /\ inflight \subseteq inflight') =>
       UNCHANGED <<tasks, loading, error, inflight, sent>>]_vars

C5_Witness ==
  /\ lastEvent = <<"handleAdd", "return">>
  /\ newTitle = <<" ">>

\* C6: every successful delete of id X removes exactly one element, the one
\* with id X, and keeps every other element in its order.
C6_DeleteRemovesExactlyOne ==
  [][\A r \in Delivered({"delete"}, "ok") :
       \E i \in 1..Len(tasks) :
         /\ tasks[i].id = r.task.id
         /\ tasks' = [j \in 1..(Len(tasks) - 1) |->
                        IF j < i THEN tasks[j] ELSE tasks[j + 1]]]_vars

\* C7: the visible list is exactly the tasks the filter mode keeps, in
\* collection order, and changing the filter leaves the collection unchanged.
Keeps(mode, t) ==
  CASE mode = "active" -> ~t.completed
    [] mode = "completed" -> t.completed
    [] OTHER -> TRUE

VisibleIsFilterOf(v, coll, mode) ==
  /\ Len(v) = Cardinality({i \in 1..Len(coll) : Keeps(mode, coll[i])})
  /\ \E f \in [1..Len(v) -> 1..Len(coll)] :
       /\ \A j \in 1..Len(v) : v[j] = coll[f[j]] /\ Keeps(mode, coll[f[j]])
       /\ \A j, k \in 1..Len(v) : j < k => f[j] < f[k]

C7_FilterIsPureView ==
  /\ [](VisibleIsFilterOf(visibleTasks, tasks, filter))
  /\ [][filter' # filter => tasks' = tasks]_vars

C7_Witness ==
  /\ filter = "active"
  /\ Len(tasks) = 2
  /\ Len(visibleTasks) = 1

\* C8: once the component is unmounted before the initial list() resolves,
\* the late completion writes none of tasks, error or loading.
C8_LateLoadWritesNothing ==
  [][(ignore /\ Delivered({"list"}, "ok") \cup Delivered({"list"}, "err") # {}) =>
       UNCHANGED <<tasks, error, loading>>]_vars

C8_Witness ==
  /\ ignore
  /\ lastEvent = <<"list", "ok">>
  /\ server # <<>>
  /\ tasks = <<>>
  /\ loading

\* C9: every record in the collection was returned by the backend: the
\* collection starts empty and each step only adds records carried by a
\* successful response that is delivered in that step.
C9_TasksComeFromBackend ==
  /\ tasks = <<>>
  /\ [][Range(tasks') \subseteq
          Range(tasks) \cup
          UNION {Range(r.data) : r \in Delivered({"list", "create", "toggle",
                                                  "saveEdit"}, "ok")}]_vars

C9_Witness ==
  /\ lastEvent = <<"create", "ok">>
  /\ Len(tasks) = 2

\* C10: whenever no request is in flight, every task in the local collection
\* equals the backend's current record for that id.
C10_FaithfulCache ==
  inflight = {} => \A i \in 1..Len(tasks) : tasks[i] \in Range(server)

\* C11: a task row with a toggle, delete or saveEdit request in flight is
\* busy: busyId equals that task's id for as long as the request is pending.
C11_PendingRowIsBusy ==
  \A r \in inflight : r.kind \in Mutating => busyId = r.task.id

\* C12: while the component is mounted, loading is true whenever the initial
\* list request or a create request is in flight, and no Add is submitted
\* while loading is true.
C12_LoadingCoversListAndCreate ==
  /\ []((Mounted /\ \E r \in inflight : r.kind \in {"list", "create"}) => loading)
  /\ [][Issued({"create"}) # {} => ~loading]_vars

C12_Witness ==
  /\ Mounted
  /\ loading
  /\ \E r \in inflight : r.kind = "create"
  /\ trim(newTitle) # <<>>

\* C13: saveEdit with a draft that is blank, or equal to the title of the
\* task being edited, does what cancelEdit does: no request is issued,
\* editingId and the draft are cleared, tasks, busyId and error are unchanged.
SaveEditRuns ==
  /\ lastEvent' \in {<<"saveEdit", "return">>, <<"saveEdit", "await">>}
  /\ inflight \subseteq inflight'

C14_FailedSaveStaysInEdit ==
  [][/\ Delivered({"saveEdit"}, "err") # {} =>
          /\ ~NoError(error')
          /\ editingId' = editingId
          /\ editingTitle' = editingTitle
     /\ Delivered({"saveEdit"}, "ok") # {} => editingId' = NULL]_vars

C14_Witness ==
  /\ lastEvent = <<"saveEdit", "err">>
  /\ editingId # NULL
  /\ editingTitle = <<"a">>
  /\ ~NoError(error)

\* C15 (as claimed): immediately after an add, toggle, delete or saveEdit
\* completes successfully, error is empty.
Actions == {"create", "toggle", "delete", "saveEdit"}

C15_ErrorEmptyAfterSuccess ==
  [][Delivered(Actions, "ok") # {} => NoError(error')]_vars

\* C15 (amended): each add, toggle, delete or saveEdit sets error to empty
\* when it starts, and its successful completion leaves error as it is.
C15_ErrorClearedAtStart ==
  [][/\ Issued(Actions) # {} => error' = ErrNull
     /\ Delivered(Actions, "ok") # {} => error' = error]_vars

C15_Witness ==
  /\ lastEvent \in {<<"handleToggle", "await">>, <<"handleDelete", "await">>}
  /\ error = ErrNull
  /\ \E r \in inflight : r.status = "err"

\* C16: while the component is mounted, once every issued request has
\* completed, busyId is null and loading is false.
C16_FlagsClearedWhenIdle ==
  (Mounted /\ inflight = {}) => (busyId = NULL /\ ~loading)

C16_Witness ==
  /\ Mounted
  /\ inflight = {}
  /\ sent = MaxReqs
  /\ lastEvent = <<"toggle", "err">>
  /\ busyId = NULL

\* C17: a successful toggle or saveEdit replaces the task in place: the
\* collection keeps its length and order, the element with the updated id
\* becomes the server's record, every other element is unchanged, and the
\* collection is unchanged when no element has that id.
C17_UpdateReplacesInPlace ==
  [][\A r \in Delivered({"toggle", "saveEdit"}, "ok") :
       /\ Len(tasks') = Len(tasks)
       /\ \A i \in 1..Len(tasks) :
            /\ tasks[i].id = r.task.id => tasks'[i] = r.data[1]
            /\ tasks[i].id # r.task.id => tasks'[i] = tasks[i]
       /\ (\A i \in 1..Len(tasks) : tasks[i].id # r.task.id) => tasks' = tasks]_vars

C17_Witness ==
  /\ lastEvent = <<"saveEdit", "ok">>
  /\ Len(tasks) = 2
  /\ tasks[2].title = <<"a">>
  /\ tasks[1].title = InitTitle

\* the id of the update was gone from the collection when it completed
C17_WitnessAbsent ==
  /\ lastEvent = <<"toggle", "ok">>
  /\ tasks = <<>>
  /\ nextId = 2

\* C18: a successful Add sends the trimmed title, puts the task the server
\* returned at the head of the collection, the tasks held before following
\* in their order, and clears the input.
IsTrimOf(t, s) ==
  /\ t # <<>> => (t[1] # " " /\ t[Len(t)] # " ")
  /\ \E a, b \in 0..Len(s) :
       /\ a + Len(t) + b = Len(s)
       /\ \A i \in 1..Len(s) :
            IF i <= a \/ i > a + Len(t) THEN s[i] = " " ELSE s[i] = t[i - a]

C18_AddPrepends ==
  [][/\ \A r \in Issued({"create"}) : IsTrimOf(r.title, newTitle)
     /\ \A r \in Delivered({"create"}, "ok") :
          /\ tasks' = <<r.data[1]>> \o tasks
          /\ r.data[1].title = r.title
          /\ newTitle' = <<>>]_vars

C18_Witness ==
  /\ lastEvent = <<"create", "ok">>
  /\ Len(tasks) = 2
  /\ tasks[1].title = <<"a">>
  /\ tasks[2].title = InitTitle
  /\ newTitle = <<>>
\* C19: when the response of a successful saveEdit of one task arrives while
\* a different task is in edit mode, editingId and that task's draft title
\* are left unchanged.
C19_OtherRowEditKept ==
  [][\A r \in Delivered({"saveEdit"}, "ok") :
       (editingId # NULL /\ editingId # r.task.id) =>
         UNCHANGED <<editingId, editingTitle>>]_vars

\* C20: once a delete of an id has completed successfully, no task with that
\* id is in the collection again, whatever responses arrive afterwards.
C20_DeletedNeverReappears ==
  \A i \in 1..Len(tasks) : tasks[i].id \notin deleted

C20_Witness ==
  /\ lastEvent = <<"saveEdit", "ok">>
  /\ deleted = {1}
  /\ nextId = 2
  /\ tasks = <<>>

TypeOK ==
  /\ newTitle \in NewTitles /\ editingTitle \in Strs \cup {InitTitle}
  /\ loading \in BOOLEAN /\ ignore \in BOOLEAN
  /\ filter \in Filters
  /\ busyId \in 0..MaxTasks /\ editingId \in 0..MaxTasks
====
